---- MODULE Spec2Model ----
(***************************************************************************)
(* Model of the exam-cell backend (src/backend/server.js): the roster      *)
(* reconciliation of the students upload, the hall geometry resolution,    *)
(* the balanced distribution and the multi-day allocation request.         *)
(***************************************************************************)
EXTENDS Integers, Sequences, FiniteSets, TLC

VARIABLES
  pc,                \* position of the running handler
  uploads,           \* UPLOAD_DIR: file name -> content
  files,             \* req.files of the students upload, each as its parsed rows
  unique,            \* readStudentsFromFile: per file, `unique` after the dedup loop
  students,          \* allocate: the roster array read from studentsFile
  hallDefs,          \* allocate: the resolved hall definitions
  allocator,         \* allocate: req.body.allocator
  days,              \* allocate: req.body.days
  loopIdx,           \* number of iterations done by the loop of the current phase
  pool,              \* the student pool handed to distributeBalanced
  assignments,       \* the assignments of the last distribution
  allocationsByDay,  \* allocate: key -> finalRows, in insertion order
  manifest,          \* allocate: key -> file name, in insertion order
  res,               \* the response sent
  fill               \* distributeBalanced step by step: its local variables

vars == <<pc, uploads, files, unique, students, hallDefs, allocator, days,
          loopIdx, pool, assignments, allocationsByDay, manifest, res, fill>>

(***************************************************************************)
(* Bounds of the model.                                                    *)
(***************************************************************************)
MaxPool == 3        \* students in a pool or roster
MaxBenches == 2     \* benches of a hall handed to distributeBalanced directly
MaxRows == 3        \* rows of an uploaded students sheet
MaxGeomBenches == 12  \* benches of a hall whose geometry is resolved
MaxDim == 4         \* rows or cols given for a hall
MaxRoster == 2      \* students of the persisted roster of an allocation
MaxDays == 2        \* day plans of an allocation request

DefaultBenches == 30  \* h.benches || 30, benchesPerHall || 30
DefaultCols == 10     \* cols = 10 when a hall gives neither rows nor cols

Null == [null |-> TRUE]   \* JavaScript null in an array of student objects
NoResponse == [status |-> "none"]
NoFill == [at |-> "idle"]  \* distributeBalanced is not being stepped through

SubjectCodes == {"", "A", "B"}
HallIdLists == {<<>>, <<"H1">>, <<"H1", "H2">>, <<"H1", "H1">>}

(***************************************************************************)
(* Generic helpers.                                                        *)
(***************************************************************************)
Range(s) == {s[i] : i \in DOMAIN s}

Min(a, b) == IF a < b THEN a ELSE b

RECURSIVE SumSeq(_)
SumSeq(s) == IF s = <<>> THEN 0 ELSE Head(s) + SumSeq(Tail(s))

RECURSIVE Flatten(_)
Flatten(ss) == IF ss = <<>> THEN <<>> ELSE Head(ss) \o Flatten(Tail(ss))

Perms(n) == {p \in [1..n -> 1..n] : \A i, j \in 1..n : p[i] = p[j] => i = j}

\* Math.ceil(a / b) on integers, b # 0 (a negative quotient rounds towards zero)
CeilDiv(a, b) ==
  IF b > 0 THEN -((-a) \div b) ELSE -(a \div (-b))

Reg(i) == "R" \o ToString(i)
Name(i) == "N" \o ToString(i)
MkStudent(i, sub) ==
  [register_number |-> Reg(i), student_name |-> Name(i), subject_code |-> sub]

\* student arrays of at most n students, with any subject codes
StudentArrays(n) ==
  UNION {{[i \in 1..k |-> MkStudent(i, f[i])] : f \in [1..k -> SubjectCodes]} : k \in 0..n}

(***************************************************************************)
(* shuffleArray: Fisher-Yates with Math.random, any permutation can result *)
(***************************************************************************)
ShuffleArray(arr) ==
  {[i \in 1..Len(arr) |-> arr[p[i]]] : p \in Perms(Len(arr))}

(***************************************************************************)
(* The students upload: readStudentsFromFile and POST /api/upload/students *)
(***************************************************************************)
\* the register cells of the model's sheets
RawRegisters == {"", "r 1", "R1", "SYN0001"}

\* normalizeRegister: trim, strip whitespace, upper-case (on RawRegisters)
NormalizeRegister(reg) ==
  IF reg = "" THEN "" ELSE IF reg = "r 1" THEN "R1" ELSE reg

\* lines 116-122: a row with the canonical column names
ParseRow(r) ==
  [register_number |-> NormalizeRegister(r.register_number),
   student_name |-> r.student_name, subject_code |-> r.subject_code]

ParseRows(raw) == [i \in 1..Len(raw) |-> ParseRow(raw[i])]

\* a mutant of Dedup: the seen test without its non-empty guard
RECURSIVE DedupNoEmptyGuard(_, _, _)
DedupNoEmptyGuard(parsed, seen, acc) ==
  IF parsed = <<>> THEN acc
  ELSE LET s == Head(parsed)
       IN IF s.register_number \in seen
          THEN DedupNoEmptyGuard(Tail(parsed), seen, acc)
          ELSE DedupNoEmptyGuard(Tail(parsed), seen \cup {s.register_number},
                                 Append(acc, s))

\* lines 125-131: the dedup loop over the rest of `parsed`
RECURSIVE Dedup(_, _, _)
Dedup(parsed, seen, acc) ==
  IF parsed = <<>> THEN acc
  ELSE LET s == Head(parsed)
       IN IF s.register_number # "" /\ s.register_number \in seen
          THEN Dedup(Tail(parsed), seen, acc)
          ELSE Dedup(Tail(parsed),
                     IF s.register_number # "" THEN seen \cup {s.register_number}
                                               ELSE seen,
                     Append(acc, s))

\* String(n).padStart(4, '0')
PadStart4(str) ==
  IF Len(str) >= 4 THEN str
  ELSE IF Len(str) = 3 THEN "0" \o str
  ELSE IF Len(str) = 2 THEN "00" \o str
  ELSE "000" \o str

SynId(n) == "SYN" \o PadStart4(ToString(n))

\* lines 132-138: synthetic identifiers for the records that have none
RECURSIVE Synthesize(_, _, _)
Synthesize(uniq, syntheticCounter, acc) ==
  IF uniq = <<>> THEN acc
  ELSE IF Head(uniq).register_number = ""
  THEN Synthesize(Tail(uniq), syntheticCounter + 1,
                  Append(acc, [Head(uniq) EXCEPT
                                 !.register_number = SynId(syntheticCounter)]))
  ELSE Synthesize(Tail(uniq), syntheticCounter, Append(acc, Head(uniq)))

\* the ordinal order of the identifiers of the model: "R1" < "SYN0001" < ...
RegisterBefore(a, b) ==
  \/ a = "R1" /\ b # "R1"
  \/ /\ a # "R1" /\ b # "R1"
     /\ \E m, n \in 1..(MaxRows + 1) : a = SynId(m) /\ b = SynId(n) /\ m < n

\* line 139: sort by register_number; the comparator never answers 0, so the
\* order of records with equal identifiers is whatever the engine makes it
SortedByRegister(uniq) ==
  {t \in ShuffleArray(uniq) :
     \A i, j \in 1..Len(t) :
       i < j => ~RegisterBefore(t[j].register_number, t[i].register_number)}

\* readStudentsFromFile: the arrays it can return for a sheet
ReadStudentsFromFile(raw) ==
  SortedByRegister(Synthesize(Dedup(ParseRows(raw), {}, <<>>), 1, <<>>))

(***************************************************************************)
(* distributeBalanced                                                      *)
(***************************************************************************)
SubjectKey(s) == IF s.subject_code = "" THEN "__NONE__" ELSE s.subject_code

\* the keys of bySub in Map insertion order (first appearance in studentsArr)
RECURSIVE BySubKeys(_, _)
BySubKeys(studentsArr, keys) ==
  IF studentsArr = <<>> THEN keys
  ELSE LET k == SubjectKey(Head(studentsArr))
       IN BySubKeys(Tail(studentsArr),
                    IF k \in Range(keys) THEN keys ELSE Append(keys, k))

\* bySub after the grouping loop: key -> the students of the key in pool order
BySub(studentsArr) ==
  [k \in Range(BySubKeys(studentsArr, <<>>)) |->
     SelectSeq(studentsArr, LAMBDA s : SubjectKey(s) = k)]

\* the values bySub can hold after every queue has been shuffled in place
ShuffledBySub(studentsArr) ==
  LET bySub == BySub(studentsArr)
  IN {f \in [DOMAIN bySub -> UNION {ShuffleArray(bySub[k]) : k \in DOMAIN bySub}] :
        \A k \in DOMAIN bySub : f[k] \in ShuffleArray(bySub[k])}

\* subjects.sort((a,b) => b.count - a.count): stable, descending by count
SortByCountDesc(subjects) ==
  LET n == Len(subjects)
      rank(i) == Cardinality({j \in 1..n :
                    \/ subjects[j].count > subjects[i].count
                    \/ subjects[j].count = subjects[i].count /\ j < i}) + 1
  IN [r \in 1..n |-> subjects[CHOOSE i \in 1..n : rank(i) = r]]

Subjects(studentsArr, bySub) ==
  LET keys == BySubKeys(studentsArr, <<>>)
  IN SortByCountDesc([i \in 1..Len(keys) |->
        [subject |-> keys[i], q |-> bySub[keys[i]], count |-> Len(bySub[keys[i]])]])

\* a mutant of Sweep: the for loop without its idx < capacity bound
RECURSIVE SweepNoCapacity(_, _, _, _, _)
SweepNoCapacity(subjects, hallSeats, idx, i, placed) ==
  IF i > Len(subjects)
  THEN [subjects |-> subjects, hallSeats |-> hallSeats, idx |-> idx, placed |-> placed]
  ELSE IF Len(subjects[i].q) = 0
  THEN SweepNoCapacity(subjects, hallSeats, idx, i + 1, placed)
  ELSE SweepNoCapacity([subjects EXCEPT ![i].q = Tail(@)],
                       IF idx < Len(hallSeats)
                       THEN [hallSeats EXCEPT ![idx + 1] = Head(subjects[i].q)]
                       ELSE Append(hallSeats, Head(subjects[i].q)),
                       idx + 1, i + 1, TRUE)

\* one round-robin sweep (the for loop of lines 188-194), from subject i on;
\* hallSeats[idx + 1] is the array slot hallSeats[idx] of the code
RECURSIVE Sweep(_, _, _, _, _)
Sweep(subjects, hallSeats, idx, i, placed) ==
  IF i > Len(subjects) \/ idx >= Len(hallSeats)
  THEN [subjects |-> subjects, hallSeats |-> hallSeats, idx |-> idx, placed |-> placed]
  ELSE IF Len(subjects[i].q) = 0
  THEN Sweep(subjects, hallSeats, idx, i + 1, placed)
  ELSE Sweep([subjects EXCEPT ![i].q = Tail(@)],
             [hallSeats EXCEPT ![idx + 1] = Head(subjects[i].q)],
             idx + 1, i + 1, TRUE)

\* the while loop of lines 186-196 for one hall of `capacity` benches
RECURSIVE FillHall(_, _, _, _)
FillHall(subjects, hallSeats, idx, capacity) ==
  IF idx >= capacity
  THEN [subjects |-> subjects, hallSeats |-> hallSeats]
  ELSE LET r == Sweep(subjects, hallSeats, idx, 1, FALSE)
       IN IF ~r.placed
          THEN [subjects |-> r.subjects, hallSeats |-> r.hallSeats]
          ELSE FillHall(r.subjects, r.hallSeats, r.idx, capacity)

\* lines 197-199: the assignments of one hall, in bench order
HallAssignments(h, hallSeats) ==
  LET occupied == SelectSeq([b \in 1..Len(hallSeats) |-> b],
                            LAMBDA b : hallSeats[b] # Null)
  IN [n \in 1..Len(occupied) |->
        [hall_id |-> h.hall_id, bench_index_in_hall |-> occupied[n],
         student |-> hallSeats[occupied[n]]]]

\* new Array(capacity) throws a RangeError for a negative length
DistributeThrows(hallDefsArg) ==
  \E i \in DOMAIN hallDefsArg : hallDefsArg[i].benches < 0

\* the per-hall fill (lines 182-200), over the halls from index h on
RECURSIVE PerHallFill(_, _, _, _)
PerHallFill(subjects, hallDefsArg, h, acc) ==
  IF h > Len(hallDefsArg)
  THEN [subjects |-> subjects, assignments |-> acc]
  ELSE LET capacity == hallDefsArg[h].benches
           r == FillHall(subjects, [b \in 1..capacity |-> Null], 0, capacity)
       IN PerHallFill(r.subjects, hallDefsArg, h + 1,
                      acc \o HallAssignments(hallDefsArg[h], r.hallSeats))

\* line 202: the leftover students, group by group
Remaining(subjects) == Flatten([i \in 1..Len(subjects) |-> subjects[i].q])

\* line 205: every position, in hall-then-bench order
Positions(hallDefsArg) ==
  Flatten([h \in 1..Len(hallDefsArg) |->
             [b \in 1..hallDefsArg[h].benches |->
                [hall_id |-> hallDefsArg[h].hall_id, bench |-> b]]])

\* lines 208-215: the leftover pass from position p on, i leftovers placed
RECURSIVE Backfill(_, _, _, _, _, _)
Backfill(positions, p, remaining, i, used, acc) ==
  IF p > Len(positions) \/ i >= Len(remaining) THEN acc
  ELSE LET key == <<positions[p].hall_id, positions[p].bench>>
       IN IF key \notin used
          THEN Backfill(positions, p + 1, remaining, i + 1, used \cup {key},
                        Append(acc, [hall_id |-> positions[p].hall_id,
                                     bench_index_in_hall |-> positions[p].bench,
                                     student |-> remaining[i + 1]]))
          ELSE Backfill(positions, p + 1, remaining, i, used, acc)

\* distributeBalanced(studentsArr, hallDefs), bySub being the shuffled queues
DistributeBalanced(studentsArr, hallDefsArg, bySub) ==
  LET filled == PerHallFill(Subjects(studentsArr, bySub), hallDefsArg, 1, <<>>)
      remaining == Remaining(filled.subjects)
      used == {<<a.hall_id, a.bench_index_in_hall>> : a \in Range(filled.assignments)}
  IN IF Len(remaining) > 0
     THEN Backfill(Positions(hallDefsArg), 1, remaining, 0, used, filled.assignments)
     ELSE filled.assignments

(***************************************************************************)
(* POST /api/upload/students                                               *)
(***************************************************************************)
RowData == {[student_name |-> "N1", subject_code |-> "A"],
            [student_name |-> "N2", subject_code |-> "B"]}

RawRows ==
  {[register_number |-> reg, student_name |-> d.student_name,
    subject_code |-> d.subject_code] : reg \in RawRegisters, d \in RowData}

Sheets(n) == UNION {[1..k -> RawRows] : k \in 0..n}

\* the uploads of the model: no file, one sheet, or a sheet and a short second one
UploadRequests ==
  {<<>>} \cup {<<f>> : f \in Sheets(MaxRows)}
         \cup {<<f, g>> : f \in Sheets(MaxRows), g \in Sheets(1)}

InitUpload ==
  /\ pc = "upload"
  /\ files \in UploadRequests
  /\ uploads = <<>> /\ unique = <<>> /\ students = <<>> /\ hallDefs = <<>>
  /\ allocator = "" /\ days = <<>> /\ loopIdx = 0 /\ pool = <<>>
  /\ assignments = <<>> /\ allocationsByDay = <<>> /\ manifest = <<>>
  /\ res = NoResponse /\ fill = NoFill

\* the arrays the concat loop of line 272 can build from the files from i on
RECURSIVE ConcatStudents(_, _)
ConcatStudents(fs, i) ==
  IF i > Len(fs) THEN {<<>>}
  ELSE {a \o b : a \in ReadStudentsFromFile(fs[i]), b \in ConcatStudents(fs, i + 1)}

UploadStudents ==
  /\ pc = "upload"
  /\ \/ /\ Len(files) = 0
        /\ res' = [status |-> "400", error |-> "no files"]
        /\ pc' = "failed"
        /\ UNCHANGED <<uploads, unique>>
     \/ /\ Len(files) > 0
        /\ \E roster \in ConcatStudents(files, 1) :
             /\ uploads' = [name \in {"students.json"} |-> roster]
             /\ res' = [status |-> "200", file |-> "students.json",
                        count |-> Len(roster)]
        /\ unique' = [i \in 1..Len(files) |-> Dedup(ParseRows(files[i]), {}, <<>>)]
        /\ pc' = "uploaded"
     \/ /\ Len(files) > 0           \* a sheet cannot be read, or saveJson throws
        /\ res' = [status |-> "500", error |-> "err.message"]
        /\ pc' = "failed"
        /\ UNCHANGED <<uploads, unique>>
  /\ UNCHANGED fill
  /\ UNCHANGED <<files, students, hallDefs, allocator, days, loopIdx, pool,
                 assignments, allocationsByDay, manifest>>

NextUpload == UploadStudents

SpecUpload == InitUpload /\ [][NextUpload]_vars

\* C2: after the reconciliation of an upload every record of the roster has a
\* non-empty register_number and no two records share one.
C2_RosterIdentified ==
  pc = "uploaded" =>
    LET roster == uploads["students.json"]
    IN /\ \A i \in DOMAIN roster : roster[i].register_number # ""
       /\ \A i, j \in DOMAIN roster :
            roster[i].register_number = roster[j].register_number => i = j

\* the indices of the records that repeat a non-empty identifier seen earlier
Repeats(parsed) ==
  {i \in DOMAIN parsed :
     /\ parsed[i].register_number # ""
     /\ \E j \in 1..(i - 1) : parsed[j].register_number = parsed[i].register_number}

\* C3: the dedup step keeps exactly (input size - k) records, k being the
\* number of records repeating a non-empty identifier seen earlier: the kept
\* records are the others, unchanged and in input order, so first occurrences
\* win and records without identifier are never dropped.
C3_DedupFirstWins ==
  pc = "uploaded" =>
    \A f \in DOMAIN files :
      LET parsed == ParseRows(files[f])
          kept == SelectSeq([i \in DOMAIN parsed |-> i],
                            LAMBDA i : i \notin Repeats(parsed))
      IN /\ Len(unique[f]) = Len(parsed) - Cardinality(Repeats(parsed))
         /\ unique[f] = [n \in 1..Len(kept) |-> parsed[kept[n]]]

\* a sheet with a repeated identifier and two records without one was deduped
C3_Witness ==
  /\ pc = "uploaded"
  /\ \E f \in DOMAIN files :
       LET parsed == ParseRows(files[f])
       IN /\ Repeats(parsed) # {}
          /\ Len(unique[f]) < Len(parsed)
          /\ \E i \in DOMAIN unique[f] : unique[f][i].register_number = ""

(***************************************************************************)
(* The hall geometry resolution of POST /api/allocate (lines 316-324).     *)
(* A hall record holds integers; an absent or null rows / cols is 0, which *)
(* no test of the code tells from null (both are falsy, both count as 0).  *)
(***************************************************************************)
\* a mutant of ResolveHall: without the last correction of line 322
ResolveHallNoCorrection(h) ==
  LET benches == IF h.benches # 0 THEN h.benches ELSE DefaultBenches
  IN [hall_id |-> h.hall_id, benches |-> benches,
      rows |-> IF h.rows # 0 THEN h.rows
               ELSE CeilDiv(benches, IF h.cols # 0 THEN h.cols ELSE DefaultCols),
      cols |-> IF h.cols # 0 THEN h.cols
               ELSE IF h.rows # 0 THEN CeilDiv(benches, h.rows) ELSE DefaultCols]

ResolveHall(h) ==
  LET benches == IF h.benches # 0 THEN h.benches ELSE DefaultBenches
      rows0 == h.rows
      cols0 == h.cols
      rows1 == IF rows0 = 0 /\ cols0 = 0 THEN CeilDiv(benches, DefaultCols)
               ELSE IF rows0 # 0 /\ cols0 = 0 THEN rows0
               ELSE IF cols0 # 0 /\ rows0 = 0 THEN CeilDiv(benches, cols0)
               ELSE rows0
      cols1 == IF rows0 = 0 /\ cols0 = 0 THEN DefaultCols
               ELSE IF rows0 # 0 /\ cols0 = 0 THEN CeilDiv(benches, rows0)
               ELSE cols0
      cols2 == IF rows1 * cols1 < benches THEN CeilDiv(benches, rows1) ELSE cols1
  IN [hall_id |-> h.hall_id, benches |-> benches, rows |-> rows1, cols |-> cols2]

ResolveHalls(rawHalls) == [i \in 1..Len(rawHalls) |-> ResolveHall(rawHalls[i])]

\* the hall records of the model's halls files: any benches, rows and cols
\* absent (0) or positive
GeometryHalls ==
  {[hall_id |-> "H1", benches |-> b, rows |-> r, cols |-> c] :
     b \in (-3)..MaxGeomBenches, r \in 0..MaxDim, c \in 0..MaxDim}

InitGeometry ==
  /\ pc = "resolve"
  /\ \E h \in GeometryHalls : uploads = [name \in {"halls.json"} |-> <<h>>]
  /\ files = <<>> /\ unique = <<>> /\ students = <<>> /\ hallDefs = <<>>
  /\ allocator = "" /\ days = <<>> /\ loopIdx = 0 /\ pool = <<>>
  /\ assignments = <<>> /\ allocationsByDay = <<>> /\ manifest = <<>>
  /\ res = NoResponse /\ fill = NoFill

ResolveGeometry ==
  /\ pc = "resolve"
  /\ hallDefs' = ResolveHalls(uploads["halls.json"])
  /\ pc' = "resolved"
  /\ UNCHANGED fill
  /\ UNCHANGED <<uploads, files, unique, students, allocator, days, loopIdx,
                 pool, assignments, allocationsByDay, manifest, res>>

NextGeometry == ResolveGeometry

SpecGeometry == InitGeometry /\ [][NextGeometry]_vars

\* C4: for a hall with positive benches and rows / cols each absent or
\* positive, the resolution yields positive rows and cols with
\* rows * cols >= benches; when both are given and rows * cols < benches,
\* rows is kept and cols becomes ceil(benches / rows), the least sufficient.
C4_Geometry ==
  pc = "resolved" =>
    \A i \in DOMAIN hallDefs :
      LET h == uploads["halls.json"][i]
          d == hallDefs[i]
      IN h.benches > 0 =>
           /\ d.benches = h.benches
           /\ d.rows > 0 /\ d.cols > 0
           /\ d.rows * d.cols >= d.benches
           /\ (h.rows > 0 /\ h.cols > 0 /\ h.rows * h.cols < h.benches) =>
                /\ d.rows = h.rows
                /\ (d.cols - 1) * d.rows < h.benches

\* a hall giving both rows and cols, too few for its benches, was resolved
C4_Witness ==
  /\ pc = "resolved"
  /\ \E i \in DOMAIN hallDefs :
       LET h == uploads["halls.json"][i]
       IN /\ h.benches > 0 /\ h.rows > 0 /\ h.cols > 0
          /\ h.rows * h.cols < h.benches
          /\ hallDefs[i].cols > h.cols

(***************************************************************************)
(* distributeBalanced on its own: any pool, any hall list.                 *)
(***************************************************************************)
HallLists ==
  UNION {{[i \in 1..Len(ids) |-> [hall_id |-> ids[i], benches |-> f[i]]] :
            f \in [1..Len(ids) -> 0..MaxBenches]} : ids \in HallIdLists}

InitDistribute ==
  /\ pc = "distribute"
  /\ pool \in StudentArrays(MaxPool)
  /\ hallDefs \in HallLists
  /\ assignments = <<>>
  /\ uploads = <<>> /\ files = <<>> /\ unique = <<>> /\ students = <<>>
  /\ allocator = "" /\ days = <<>> /\ loopIdx = 0
  /\ allocationsByDay = <<>> /\ manifest = <<>> /\ res = NoResponse /\ fill = NoFill

Distribute ==
  /\ pc = "distribute"
  /\ \E bySub \in ShuffledBySub(pool) :
       assignments' = DistributeBalanced(pool, hallDefs, bySub)
  /\ pc' = "distributed"
  /\ UNCHANGED fill
  /\ UNCHANGED <<uploads, files, unique, students, hallDefs, allocator, days,
                 loopIdx, pool, allocationsByDay, manifest, res>>

NextDistribute == Distribute

SpecDistribute == InitDistribute /\ [][NextDistribute]_vars

DistinctHallIds(hs) ==
  \A i, j \in DOMAIN hs : hs[i].hall_id = hs[j].hall_id => i = j

HallBenches(hs, id) ==
  LET i == CHOOSE i \in DOMAIN hs : hs[i].hall_id = id IN hs[i].benches

TotalBenches(hs) == SumSeq([i \in DOMAIN hs |-> hs[i].benches])

\* C1: for halls with distinct hall_ids and non-negative benches,
\* distributeBalanced returns min(pool size, sum of benches) assignments, each
\* at a bench index within [1, benches] of its hall, no (hall, bench) position
\* twice; a pool larger than the capacity fills every bench and drops the rest.
C1_Coverage ==
  (pc = "distributed" /\ DistinctHallIds(hallDefs)) =>
    /\ Len(assignments) = Min(Len(pool), TotalBenches(hallDefs))
    /\ \A n \in DOMAIN assignments :
         /\ assignments[n].hall_id \in {hallDefs[i].hall_id : i \in DOMAIN hallDefs}
         /\ assignments[n].bench_index_in_hall \in
              1..HallBenches(hallDefs, assignments[n].hall_id)
         /\ assignments[n].student \in Range(pool)
    /\ \A m, n \in DOMAIN assignments :
         (/\ assignments[m].hall_id = assignments[n].hall_id
          /\ assignments[m].bench_index_in_hall = assignments[n].bench_index_in_hall)
           => m = n
    /\ \A m, n \in DOMAIN assignments :
         assignments[m].student = assignments[n].student => m = n
    /\ Len(pool) > TotalBenches(hallDefs) =>
         \A i \in DOMAIN hallDefs : \A b \in 1..hallDefs[i].benches :
           \E n \in DOMAIN assignments :
             /\ assignments[n].hall_id = hallDefs[i].hall_id
             /\ assignments[n].bench_index_in_hall = b

\* a pool larger than the total capacity of two halls has been distributed
C1_Witness ==
  /\ pc = "distributed" /\ DistinctHallIds(hallDefs) /\ Len(hallDefs) = 2
  /\ TotalBenches(hallDefs) > 0
  /\ Len(pool) > TotalBenches(hallDefs)
  /\ Len(assignments) = TotalBenches(hallDefs)

(***************************************************************************)
(* benchToRowCol and buildOutputsFromAssignments                           *)
(***************************************************************************)
\* row and col are 0 where the code returns null
BenchToRowCol(benchNumber, rows, cols) ==
  IF rows = 0 \/ cols = 0 THEN [row |-> 0, col |-> 0]
  ELSE [row |-> CeilDiv(benchNumber, cols),
        col |-> ((benchNumber - 1) % cols) + 1]

\* `${hall_id}#${bench}`
PositionKey(hall_id, bench) == hall_id \o "#" \o bench

\* line 223: the key read off an assignment; a property the object lacks
\* reads as undefined
AssignmentKey(a) ==
  PositionKey(a.hall_id,
              IF "bench_index_in_hall" \in DOMAIN a
              THEN ToString(a.bench_index_in_hall) ELSE "undefined")

\* map.get(key) after the map.set of every assignment: the student of the
\* last assignment with the key, Null when there is none
MapGet(assignmentsArg, key) ==
  LET hits == {n \in DOMAIN assignmentsArg : AssignmentKey(assignmentsArg[n]) = key}
  IN IF hits = {} THEN Null
     ELSE assignmentsArg[CHOOSE n \in hits : \A m \in hits : m <= n].student

OutputRow(h, b, s) ==
  LET rc == BenchToRowCol(b, h.rows, h.cols)
  IN [hall_id |-> h.hall_id, bench_number |-> b, row |-> rc.row, col |-> rc.col,
      register_number |-> IF s # Null THEN s.register_number ELSE "",
      student_name |-> IF s # Null THEN s.student_name ELSE "",
      subject_code |-> IF s # Null THEN s.subject_code ELSE ""]

BuildOutputsFromAssignments(assignmentsArg, hallDefsArg) ==
  Flatten([h \in 1..Len(hallDefsArg) |->
    [b \in 1..hallDefsArg[h].benches |->
       OutputRow(hallDefsArg[h], b,
                 MapGet(assignmentsArg,
                        PositionKey(hallDefsArg[h].hall_id, ToString(b))))]])

(***************************************************************************)
(* POST /api/allocate                                                      *)
(***************************************************************************)
\* a JavaScript object as the sequence of its entries in insertion order
ObjHas(obj, key) == \E i \in DOMAIN obj : obj[i].key = key

ObjGet(obj, key) == obj[CHOOSE i \in DOMAIN obj : obj[i].key = key].value

ObjSet(obj, key, value) ==
  IF ObjHas(obj, key)
  THEN [i \in DOMAIN obj |-> IF obj[i].key = key
                              THEN [key |-> key, value |-> value] ELSE obj[i]]
  ELSE Append(obj, [key |-> key, value |-> value])

\* fs.writeFileSync into UPLOAD_DIR
WriteFile(dir, name, content) ==
  [n \in DOMAIN dir \cup {name} |-> IF n = name THEN content ELSE dir[n]]

\* toUpperCase on the subject codes of the model
ToUpperCase(str) ==
  IF str = "a" THEN "A" ELSE IF str = "b" THEN "B" ELSE str

\* a mutant of FilterPool: the day draws from the students not yet seated
FilterPoolUnseated(studentsArr, d) ==
  SelectSeq(studentsArr, LAMBDA st :
    /\ Len(d.subjects) > 0 =>
         ToUpperCase(st.subject_code) \in {ToUpperCase(x) : x \in Range(d.subjects)}
    /\ \A n \in DOMAIN assignments : assignments[n].student # st)

\* lines 334-338: the pool of day plan d, before its shuffle
FilterPool(studentsArr, d) ==
  IF Len(d.subjects) > 0
  THEN SelectSeq(studentsArr, LAMBDA st :
         ToUpperCase(st.subject_code) \in {ToUpperCase(x) : x \in Range(d.subjects)})
  ELSE studentsArr

\* lines 342 and 356
OddDefs(hallDefsArg) ==
  [i \in 1..Len(hallDefsArg) |->
     [hall_id |-> hallDefsArg[i].hall_id,
      benches |-> CeilDiv(hallDefsArg[i].benches, 2),
      rows |-> hallDefsArg[i].rows,
      cols |-> CeilDiv(hallDefsArg[i].cols, 2)]]

\* a mutant of PhysicalBench: the even benches
PhysicalBenchEven(i) == i * 2

\* lines 344 and 358: the physical bench of effective bench i
PhysicalBench(i) == (i - 1) * 2 + 1

UsesOdd(alloc) == alloc = "" \/ alloc = "odd"

\* lines 341-348 and 355-362: the assignments of one distribution
Assign(p, hallDefsArg, alloc, bySub) ==
  IF UsesOdd(alloc)
  THEN LET a == DistributeBalanced(p, OddDefs(hallDefsArg), bySub)
       IN [n \in 1..Len(a) |->
             [hall_id |-> a[n].hall_id,
              bench_number |-> PhysicalBench(a[n].bench_index_in_hall),
              student |-> a[n].student]]
  ELSE LET a == DistributeBalanced(p, hallDefsArg, bySub)
       IN [n \in 1..Len(a) |->
             [hall_id |-> a[n].hall_id,
              bench_number |-> a[n].bench_index_in_hall,
              student |-> a[n].student]]

AssignThrows(hallDefsArg, alloc) ==
  DistributeThrows(IF UsesOdd(alloc) THEN OddDefs(hallDefsArg) ELSE hallDefsArg)

\* line 328: the halls of a numHalls / benchesPerHall pair (0: not given)
GeneratedHalls(numHalls, benchesPerHall) ==
  LET b == IF benchesPerHall # 0 THEN benchesPerHall ELSE DefaultBenches
  IN [i \in 1..numHalls |->
        [hall_id |-> "Hall_" \o ToString(i), benches |-> b,
         rows |-> CeilDiv(b, DefaultCols), cols |-> DefaultCols]]

RandomLabels == {"day_r1", "day_r2"}   \* `day_${Math.random()...}` labels

\* the persisted rosters of the model: R1 (subject A), R2 (B), R3 (A), ...
Rosters ==
  {[i \in 1..k |-> MkStudent(i, IF i % 2 = 1 THEN "A" ELSE "B")] : k \in 0..MaxRoster}

\* the persisted halls files of the model
HallsFiles ==
  [name \in {"hallsA.json", "hallsB.json", "hallsC.json"} |->
     IF name = "hallsA.json"
     THEN <<[hall_id |-> "H1", benches |-> 3, rows |-> 0, cols |-> 0]>>
     ELSE IF name = "hallsB.json"
     THEN <<[hall_id |-> "H1", benches |-> 2, rows |-> 2, cols |-> 0],
            [hall_id |-> "H2", benches |-> 1, rows |-> 1, cols |-> 1]>>
     ELSE <<[hall_id |-> "H1", benches |-> 1, rows |-> 0, cols |-> 0],
            [hall_id |-> "H1", benches |-> 2, rows |-> 0, cols |-> 0]>>]

InputFiles == {"students.json"} \cup DOMAIN HallsFiles

\* the numHalls / benchesPerHall pairs of the model's requests (0: not given)
HallPairs ==
  {[numHalls |-> 1, benchesPerHall |-> -1], [numHalls |-> 1, benchesPerHall |-> -2],
   [numHalls |-> 2, benchesPerHall |-> 0]}

Allocators == {"", "odd", "seq"}

\* a day plan: its label ("" when absent) and its subjects ([] when absent)
DayPlans ==
  {[day |-> "d1", subjects |-> <<>>], [day |-> "d1", subjects |-> <<"a">>],
   [day |-> "", subjects |-> <<>>], [day |-> "", subjects |-> <<"B">>]}

DayPlanLists == UNION {[1..k -> DayPlans] : k \in 0..MaxDays}

Init ==
  /\ pc = "allocate"
  /\ \E roster \in Rosters :
       uploads = [name \in InputFiles |->
                    IF name = "students.json" THEN roster ELSE HallsFiles[name]]
  /\ files = <<>> /\ unique = <<>> /\ students = <<>> /\ hallDefs = <<>>
  /\ allocator = "" /\ days = <<>> /\ loopIdx = 0 /\ pool = <<>>
  /\ assignments = <<>> /\ allocationsByDay = <<>> /\ manifest = <<>>
  /\ res = NoResponse /\ fill = NoFill

\* lines 305-329: the request is read, its files checked, the halls resolved
AllocateBegin ==
  /\ pc = "allocate"
  /\ \E studentsFile \in {"", "nosuch.json", "students.json"},
        hallsFile \in {"", "nosuch.json"} \cup DOMAIN HallsFiles :
       \/ /\ studentsFile = ""
          /\ res' = [status |-> "400", error |-> "studentsFile required"]
          /\ pc' = "failed"
          /\ UNCHANGED <<students, hallDefs, allocator, days>>
       \/ /\ studentsFile # "" /\ studentsFile \notin DOMAIN uploads
          /\ res' = [status |-> "400", error |-> "studentsFile not found"]
          /\ pc' = "failed"
          /\ UNCHANGED <<students, hallDefs, allocator, days>>
       \/ /\ studentsFile \in DOMAIN uploads
          /\ hallsFile # "" /\ hallsFile \notin DOMAIN uploads
          /\ res' = [status |-> "400", error |-> "hallsFile not found"]
          /\ pc' = "failed"
          /\ students' = uploads[studentsFile]
          /\ UNCHANGED <<hallDefs, allocator, days>>
       \/ /\ studentsFile \in DOMAIN uploads
          /\ \/ /\ hallsFile \in DOMAIN uploads
                /\ hallDefs' = ResolveHalls(uploads[hallsFile])
             \/ /\ hallsFile = ""
                /\ \E p \in HallPairs :
                     hallDefs' = GeneratedHalls(p.numHalls, p.benchesPerHall)
          /\ students' = uploads[studentsFile]
          /\ allocator' \in Allocators
          /\ days' \in DayPlanLists
          /\ pc' = "compute"
          /\ res' = res
  /\ loopIdx' = 0
  /\ UNCHANGED fill
  /\ UNCHANGED <<uploads, files, unique, pool, assignments, allocationsByDay,
                 manifest>>

\* the outcome of one distribution over the shuffled pool p: an exception, or
\* the assignments and the rows built from them, stored under key
Distributed(p, key) ==
  \/ /\ AssignThrows(hallDefs, allocator)
     /\ assignments' = <<>>
     /\ allocationsByDay' = allocationsByDay
     /\ res' = [status |-> "500", error |-> "Invalid array length"]
     /\ pc' = "failed"
  \/ /\ ~AssignThrows(hallDefs, allocator)
     /\ \E bySub \in ShuffledBySub(p) :
          /\ assignments' = Assign(p, hallDefs, allocator, bySub)
          /\ allocationsByDay' =
               ObjSet(allocationsByDay, key,
                      BuildOutputsFromAssignments(assignments', hallDefs))
     /\ res' = res
     /\ pc' = IF loopIdx' >= Len(days) THEN "computed" ELSE "compute"

\* lines 333-351: one iteration of the day loop
ComputeDay ==
  /\ pc = "compute" /\ loopIdx < Len(days)
  /\ LET d == days[loopIdx + 1]
     IN \E p \in ShuffleArray(FilterPool(students, d)) :
          /\ pool' = p
          /\ students' = IF Len(d.subjects) > 0 THEN students ELSE p
          /\ loopIdx' = loopIdx + 1
          /\ \E key \in IF d.day # "" THEN {d.day} ELSE RandomLabels :
               Distributed(p, key)
  /\ UNCHANGED fill
  /\ UNCHANGED <<uploads, files, unique, hallDefs, allocator, days, manifest>>

\* lines 353-364: the allocation without day plans
ComputeSingle ==
  /\ pc = "compute" /\ Len(days) = 0
  /\ \E p \in ShuffleArray(students) :
       /\ pool' = p
       /\ students' = p
       /\ loopIdx' = 0
       /\ Distributed(p, "single")
  /\ UNCHANGED fill
  /\ UNCHANGED <<uploads, files, unique, hallDefs, allocator, days, manifest>>

\* lines 368-385: one iteration of the persist loop, over the entries of
\* allocationsByDay; either write can throw
PersistDay ==
  /\ pc \in {"computed", "persist"}
  /\ LET n == IF pc = "computed" THEN 1 ELSE loopIdx + 1
     IN /\ n <= Len(allocationsByDay)
        /\ LET k == allocationsByDay[n].key
               rows == allocationsByDay[n].value
               fname == "allocation_" \o k \o ".json"
               outFile == "allocation_" \o k \o ".xlsx"
           IN \/ /\ UNCHANGED <<uploads, manifest>>
                 /\ res' = [status |-> "500", error |-> "err.message"]
                 /\ pc' = "failed"
              \/ /\ uploads' = WriteFile(uploads, fname, rows)
                 /\ manifest' = ObjSet(manifest, k, fname)
                 /\ res' = [status |-> "500", error |-> "err.message"]
                 /\ pc' = "failed"
              \/ /\ uploads' = WriteFile(WriteFile(uploads, fname, rows), outFile, rows)
                 /\ manifest' = ObjSet(ObjSet(manifest, k, fname),
                                       k \o "_xlsx", outFile)
                 /\ res' = res
                 /\ pc' = "persist"
        /\ loopIdx' = n
  /\ pool' = <<>> /\ assignments' = <<>>
  /\ UNCHANGED fill
  /\ UNCHANGED <<files, unique, students, hallDefs, allocator, days,
                 allocationsByDay>>

\* lines 388-391: the manifest is written and the response sent
WriteManifest ==
  /\ pc = "persist" /\ loopIdx = Len(allocationsByDay)
  /\ \/ /\ uploads' = WriteFile(uploads, "manifest.json", manifest)
        /\ res' = [status |-> "200", manifestFile |-> "manifest.json",
                   days |-> Len(manifest) \div 2]
        /\ pc' = "done"
     \/ /\ uploads' = uploads
        /\ res' = [status |-> "500", error |-> "err.message"]
        /\ pc' = "failed"
  /\ UNCHANGED fill
  /\ UNCHANGED <<files, unique, students, hallDefs, allocator, days, loopIdx,
                 pool, assignments, allocationsByDay, manifest>>

Next == AllocateBegin \/ ComputeDay \/ ComputeSingle \/ PersistDay \/ WriteManifest

Spec == Init /\ [][Next]_vars

(***************************************************************************)
(* Claims about the allocation request.                                    *)
(***************************************************************************)
\* pool and assignments are those of the distribution that just ran
Computed == pc = "computed" \/ (pc = "compute" /\ loopIdx > 0)

EffectiveCapacity(hs) == SumSeq([i \in DOMAIN hs |-> CeilDiv(hs[i].benches, 2)])

BenchesOf(hall_id) ==
  {assignments[n].bench_number :
     n \in {m \in DOMAIN assignments : assignments[m].hall_id = hall_id}}

\* C5: in the odd layout (no allocator, or 'odd') a hall takes ceil(benches/2)
\* students, effective bench i is physical bench (i-1)*2+1, so the occupied
\* benches of a hall are odd, within [1, benches], one student each, and never
\* two consecutive ones (halls with distinct hall_ids).
C5_OddLayout ==
  (Computed /\ UsesOdd(allocator) /\ DistinctHallIds(hallDefs)) =>
    /\ Len(assignments) = Min(Len(pool), EffectiveCapacity(hallDefs))
    /\ \A n \in DOMAIN assignments :
         /\ assignments[n].bench_number % 2 = 1
         /\ assignments[n].bench_number \in
              1..HallBenches(hallDefs, assignments[n].hall_id)
    /\ \A m, n \in DOMAIN assignments :
         assignments[m].hall_id = assignments[n].hall_id =>
           /\ assignments[m].bench_number = assignments[n].bench_number => m = n
           /\ assignments[m].bench_number # assignments[n].bench_number + 1
    /\ \A i \in DOMAIN hallDefs :
         LET occupied == BenchesOf(hallDefs[i].hall_id)
         IN /\ Cardinality(occupied) <= CeilDiv(hallDefs[i].benches, 2)
            /\ occupied = {(e - 1) * 2 + 1 : e \in 1..Cardinality(occupied)}

\* two students were seated in one hall in the odd layout
C5_Witness ==
  /\ Computed /\ UsesOdd(allocator) /\ DistinctHallIds(hallDefs)
  /\ \E m, n \in DOMAIN assignments :
       /\ assignments[m].hall_id = assignments[n].hall_id
       /\ assignments[m].bench_number = 1 /\ assignments[n].bench_number = 3

AssignedAt(hall_id, b) ==
  {n \in DOMAIN assignments :
     assignments[n].hall_id = hall_id /\ assignments[n].bench_number = b}

\* C6: the rows built from the assignments hold exactly one record for every
\* bench 1..benches of every hall and no other; the record of a bench with an
\* assigned student carries that student's register_number, student_name and
\* subject_code, the record of any other bench is blank.
C6_DenseOutputs ==
  (Computed /\ DistinctHallIds(hallDefs)) =>
    LET rows == BuildOutputsFromAssignments(assignments, hallDefs)
    IN /\ \E e \in DOMAIN allocationsByDay : allocationsByDay[e].value = rows
       /\ \A i \in DOMAIN hallDefs : \A b \in 1..hallDefs[i].benches :
            Cardinality({r \in DOMAIN rows :
                           /\ rows[r].hall_id = hallDefs[i].hall_id
                           /\ rows[r].bench_number = b}) = 1
       /\ \A r \in DOMAIN rows :
            /\ \E i \in DOMAIN hallDefs :
                 /\ rows[r].hall_id = hallDefs[i].hall_id
                 /\ rows[r].bench_number \in 1..hallDefs[i].benches
            /\ LET at == AssignedAt(rows[r].hall_id, rows[r].bench_number)
               IN IF at = {}
                  THEN /\ rows[r].register_number = ""
                       /\ rows[r].student_name = ""
                       /\ rows[r].subject_code = ""
                  ELSE \E n \in at :
                         /\ rows[r].register_number = assignments[n].student.register_number
                         /\ rows[r].student_name = assignments[n].student.student_name
                         /\ rows[r].subject_code = assignments[n].student.subject_code

InFilter(st, d) ==
  \/ Len(d.subjects) = 0
  \/ \E x \in Range(d.subjects) : ToUpperCase(x) = ToUpperCase(st.subject_code)

\* C7: the pool of every day is exactly the students of the full roster whose
\* subject is in the day's filter (all of them without a filter), whatever the
\* earlier days seated; the roster itself keeps all its students.
C7_DayPoolFromFullRoster ==
  (Computed /\ Len(days) > 0) =>
    LET roster == uploads["students.json"]
    IN /\ Range(pool) = {st \in Range(roster) : InFilter(st, days[loopIdx])}
       /\ Len(pool) = Cardinality(Range(pool))
       /\ Range(students) = Range(roster)
       /\ Len(students) = Len(roster)

\* the second day seats a student that the first day, with room for the
\* whole roster, has seated too
C7_Witness ==
  /\ Computed /\ loopIdx = 2 /\ allocator = "seq"
  /\ Len(students) = 2 /\ TotalBenches(hallDefs) = 3
  /\ days[1].subjects = <<>> /\ days[2].subjects = <<"a">>
  /\ Len(assignments) > 0
  /\ \A n \in DOMAIN assignments : InFilter(assignments[n].student, days[1])

InvalidHallGeometry ==
  \E i \in DOMAIN hallDefs :
    hallDefs[i].benches <= 0 \/ hallDefs[i].rows <= 0 \/ hallDefs[i].cols <= 0

\* C8: a successful request with n >= 1 day plans produces n assignment sets,
\* and the manifest maps each day label to the result set of that day; with
\* no day plans it produces exactly one set. (Stated for requests whose day
\* plans all carry a label and whose halls are valid.)
C8_OneSetPerDay ==
  (pc = "done" /\ ~InvalidHallGeometry /\ \A i \in DOMAIN days : days[i].day # "") =>
    IF Len(days) = 0 THEN Len(allocationsByDay) = 1
    ELSE /\ Len(allocationsByDay) = Len(days)
         /\ Len(manifest) = 2 * Len(days)
         /\ \A i \in DOMAIN days :
              /\ ObjHas(manifest, days[i].day)
              /\ uploads[ObjGet(manifest, days[i].day)] =
                   ObjGet(allocationsByDay, days[i].day)

\* C9: a request that fails leaves no per-day result set and no manifest
\* behind. (Stated for requests whose halls are valid.)
C9_AtomicFailure ==
  (pc = "failed" /\ ~InvalidHallGeometry) => DOMAIN uploads \subseteq InputFiles

\* C10: a request with a hall of non-positive benches, rows or cols after the
\* geometry resolution is fatal: it does not go on to produce a result set or
\* a manifest, and it does not succeed.
C10_InvalidGeometryFatal ==
  (InvalidHallGeometry /\ pc # "failed") =>
    (pc # "done" /\ DOMAIN uploads \subseteq InputFiles)


(***************************************************************************)
(* distributeBalanced step by step: one action per loop test or loop body, *)
(* `fill` holding its local variables.  Array index i of the code is index *)
(* i + 1 here: fill.hallSeats[fill.idx + 1] is hallSeats[idx], and fill.i, *)
(* fill.h count the subjects and the halls from 1.                         *)
(***************************************************************************)
MaxFillPool == 4      \* students handed to the stepped distributeBalanced
MaxFillBenches == 4   \* benches of a hall of the stepped distributeBalanced

FillCodes == <<"A", "B", "">>

CodeIndex(c) == CHOOSE n \in DOMAIN FillCodes : FillCodes[n] = c

\* subject codes named in order of first appearance: renaming the codes of a
\* pool changes nothing in distributeBalanced but the names of the groups
FirstAppearanceOrder(f) ==
  \A n \in DOMAIN f :
    CodeIndex(f[n]) <= Cardinality({f[m] : m \in 1..(n - 1)}) + 1

FillPools ==
  UNION {{[n \in 1..k |-> MkStudent(n, f[n])] :
            f \in {g \in [1..k -> Range(FillCodes)] : FirstAppearanceOrder(g)}} :
         k \in 0..MaxFillPool}

FillHallLists ==
  UNION {{[n \in 1..Len(ids) |-> [hall_id |-> ids[n], benches |-> f[n]]] :
            f \in [1..Len(ids) -> 0..MaxFillBenches]} : ids \in HallIdLists}

InitFill ==
  /\ pc = "fill"
  /\ pool \in FillPools
  /\ hallDefs \in FillHallLists
  /\ assignments = <<>>
  /\ fill = [at |-> "group", subjects |-> <<>>, hallSeats |-> <<>>, idx |-> 0,
             h |-> 0, i |-> 0, placed |-> FALSE, sweepFrom |-> 0]
  /\ uploads = <<>> /\ files = <<>> /\ unique = <<>> /\ students = <<>>
  /\ allocator = "" /\ days = <<>> /\ loopIdx = 0
  /\ allocationsByDay = <<>> /\ manifest = <<>> /\ res = NoResponse

FillRest == <<pc, uploads, files, unique, students, hallDefs, allocator, days,
              loopIdx, pool, allocationsByDay, manifest, res>>

\* lines 172-181: grouping, shuffles, the sorted subjects, assignments = []
Group ==
  /\ fill.at = "group"
  /\ \E bySub \in ShuffledBySub(pool) :
       fill' = [fill EXCEPT !.at = "hall", !.subjects = Subjects(pool, bySub),
                            !.h = 1]
  /\ assignments' = <<>>
  /\ UNCHANGED FillRest

\* lines 182-185: the next hall of the for-of loop, its seats and idx = 0
EnterHall ==
  /\ fill.at = "hall"
  /\ fill' = IF fill.h > Len(hallDefs)
             THEN [fill EXCEPT !.at = "leftover"]
             ELSE [fill EXCEPT !.at = "while", !.idx = 0,
                     !.hallSeats = [b \in 1..hallDefs[fill.h].benches |-> Null]]
  /\ UNCHANGED <<assignments, FillRest>>

\* lines 186-187: while (idx < capacity) { let placed = false; i = 0
\* sweepFrom remembers idx at the start of the sweep (not in the code)
WhileTest ==
  /\ fill.at = "while"
  /\ fill' = IF fill.idx < hallDefs[fill.h].benches
             THEN [fill EXCEPT !.at = "for", !.placed = FALSE, !.i = 1,
                               !.sweepFrom = fill.idx]
             ELSE [fill EXCEPT !.at = "collect"]
  /\ UNCHANGED <<assignments, FillRest>>

\* a mutant of ForBody: the subject index stays where a student was placed
ForBodyNoAdvance(f) ==
  IF Len(f.subjects[f.i].q) = 0
  THEN [f EXCEPT !.i = @ + 1]
  ELSE [f EXCEPT !.hallSeats[f.idx + 1] = Head(f.subjects[f.i].q),
                 !.subjects[f.i].q = Tail(@),
                 !.idx = @ + 1, !.placed = TRUE]

\* lines 189-193 and the i++ of line 188: one iteration of the sweep
ForBody(f) ==
  IF Len(f.subjects[f.i].q) = 0
  THEN [f EXCEPT !.i = @ + 1]
  ELSE [f EXCEPT !.hallSeats[f.idx + 1] = Head(f.subjects[f.i].q),
                 !.subjects[f.i].q = Tail(@),
                 !.idx = @ + 1, !.placed = TRUE, !.i = @ + 1]

\* a mutant of AfterSweep: the while loop left after its first sweep
AfterSweepOnce(placed) == "collect"

\* line 195: if (!placed) break; otherwise back to the while test
AfterSweep(placed) == IF ~placed THEN "collect" ELSE "while"

\* line 188: the for test, then the loop body or the end of the sweep
ForIter ==
  /\ fill.at = "for"
  /\ fill' = IF fill.i <= Len(fill.subjects) /\ fill.idx < hallDefs[fill.h].benches
             THEN ForBody(fill)
             ELSE [fill EXCEPT !.at = AfterSweep(fill.placed)]
  /\ UNCHANGED <<assignments, FillRest>>

\* lines 197-199: the occupied seats of the hall join the assignments
Collect ==
  /\ fill.at = "collect"
  /\ assignments' = assignments \o HallAssignments(hallDefs[fill.h], fill.hallSeats)
  /\ fill' = [fill EXCEPT !.at = "hall", !.h = @ + 1]
  /\ UNCHANGED FillRest

\* lines 201-217: the leftover students and their pass over every position
Leftover ==
  /\ fill.at = "leftover"
  /\ LET remaining == Remaining(fill.subjects)
         used == {<<a.hall_id, a.bench_index_in_hall>> : a \in Range(assignments)}
     IN assignments' =
          IF Len(remaining) > 0
          THEN Backfill(Positions(hallDefs), 1, remaining, 0, used, assignments)
          ELSE assignments
  /\ fill' = [fill EXCEPT !.at = "returned",
                !.subjects = [n \in DOMAIN fill.subjects |->
                                [fill.subjects[n] EXCEPT !.q = <<>>]]]
  /\ UNCHANGED FillRest

NextFill == Group \/ EnterHall \/ WhileTest \/ ForIter \/ Collect \/ Leftover

SpecFill == InitFill /\ [][NextFill]_vars

\* the stepped run returns what DistributeBalanced computes in one piece
FillAgreesWithDistributeBalanced ==
  fill.at = "returned" =>
    \E bySub \in ShuffledBySub(pool) :
      assignments = DistributeBalanced(pool, hallDefs, bySub)

(***************************************************************************)
(* Claims on the per-hall fill.                                            *)
(***************************************************************************)
\* the subject groups that still hold a student
NonEmptyGroups(f) == {n \in DOMAIN f.subjects : Len(f.subjects[n].q) > 0}

\* the seats filled by the sweep that is running or has just ended
SeatsOfSweep(f) == (f.sweepFrom + 1)..f.idx

\* no two seats filled in the same sweep hold students of the same group
C11_SameSweep ==
  \A a, b \in SeatsOfSweep(fill) :
    a # b => SubjectKey(fill.hallSeats[a]) # SubjectKey(fill.hallSeats[b])

\* a step that fills the bench after an occupied bench of the hall with a
\* student of the same group finds exactly one group non-empty
C11_Consecutive ==
  (/\ fill.at = "for" /\ fill'.at = "for"
   /\ fill'.idx = fill.idx + 1 /\ fill.idx >= 1
   /\ SubjectKey(fill'.hallSeats[fill.idx + 1]) = SubjectKey(fill.hallSeats[fill.idx]))
    => Cardinality(NonEmptyGroups(fill)) = 1

\* the groups of the pool all have the same size, and there are two or more
EqualGroups(studentsArr) ==
  LET bySub == BySub(studentsArr)
  IN /\ Cardinality(DOMAIN bySub) >= 2
     /\ \A k1, k2 \in DOMAIN bySub : Len(bySub[k1]) = Len(bySub[k2])

\* two assignments at benches b and b + 1 of one hall
Adjacent(a1, a2) ==
  /\ a1.hall_id = a2.hall_id
  /\ a2.bench_index_in_hall = a1.bench_index_in_hall + 1

\* one hall with room for the whole pool, groups of equal size: no two
\* adjacent benches share a subject
C11_EqualGroups ==
  (/\ fill.at \in {"leftover", "returned"}
   /\ Len(hallDefs) = 1 /\ hallDefs[1].benches >= Len(pool)
   /\ EqualGroups(pool))
    => \A m, n \in DOMAIN assignments :
         Adjacent(assignments[m], assignments[n]) =>
           SubjectKey(assignments[m].student) # SubjectKey(assignments[n].student)

\* C11: in the per-hall fill of distributeBalanced no two seats filled in the
\* same round-robin sweep hold students of the same subject group; benches b
\* and b+1 of a hall hold students of the same group only if exactly one group
\* was non-empty when bench b+1 was filled; and a single hall with capacity >=
\* pool size and >= 2 groups of equal size has no two adjacent benches sharing
\* a subject.
C11_SweepAdjacency ==
  /\ [](C11_SameSweep /\ C11_EqualGroups)
  /\ [][C11_Consecutive]_vars

\* a hall of four benches filled in several sweeps, two adjacent benches of
\* it holding students of the same subject group
C11_Witness ==
  /\ fill.at = "returned"
  /\ Len(hallDefs) = 1 /\ hallDefs[1].benches = 4 /\ Len(assignments) = 4
  /\ Cardinality(DOMAIN BySub(pool)) >= 2
  /\ \E m, n \in DOMAIN assignments :
       /\ Adjacent(assignments[m], assignments[n])
       /\ SubjectKey(assignments[m].student) = SubjectKey(assignments[n].student)

\* the example s1,s1,s2,s2 into one hall of 4 benches has been distributed
C11_ExampleDistributed ==
  /\ fill.at = "returned"
  /\ Len(hallDefs) = 1 /\ hallDefs[1].benches = 4 /\ Len(assignments) = 4
  /\ [n \in 1..4 |-> pool[n].subject_code] = <<"A", "A", "B", "B">>

\* the per-hall fill has occupied exactly the first k positions of the
\* hall-then-bench enumeration, k = min(pool size, total capacity)
C12_PrefixOccupied ==
  (fill.at = "leftover" /\ DistinctHallIds(hallDefs)) =>
    LET positions == Positions(hallDefs)
    IN /\ Len(assignments) = Min(Len(pool), Len(positions))
       /\ \A n \in DOMAIN assignments :
            /\ assignments[n].hall_id = positions[n].hall_id
            /\ assignments[n].bench_index_in_hall = positions[n].bench

\* with a student left after the per-hall fill every bench is occupied and
\* the leftover pass returns the assignments as they are
C12_BackfillIdle ==
  (/\ fill.at = "leftover" /\ DistinctHallIds(hallDefs)
   /\ Len(Remaining(fill.subjects)) > 0)
    => /\ Len(assignments) = TotalBenches(hallDefs)
       /\ assignments' = assignments

\* C12: for any pool and any halls with distinct hall_ids, after the per-hall
\* fill of distributeBalanced the occupied positions are exactly the first
\* min(pool size, total capacity) positions in hall-then-bench order; hence
\* when a student remains unplaced every bench is already occupied and the
\* leftover backfill pass assigns no student.
C12_FillIsPrefix ==
  /\ []C12_PrefixOccupied
  /\ [][C12_BackfillIdle]_vars

\* the leftover pass has run with students left over from two filled halls
C12_Witness ==
  /\ fill.at = "returned" /\ DistinctHallIds(hallDefs) /\ Len(hallDefs) = 2
  /\ hallDefs[1].benches > 0 /\ hallDefs[2].benches > 0
  /\ Len(pool) > TotalBenches(hallDefs)
  /\ Len(assignments) = TotalBenches(hallDefs)
====
